---------------------------- MODULE Spec2Model ----------------------------
(***************************************************************************)
(* A model of the drawing core of wallpaper-app:                           *)
(*   - draw_galaxy_step_inc and Galaxy (src/src/drawing/beauty_math.rs),   *)
(*     with the process-wide ORIG_X / ORIG_Y slot;                         *)
(*   - calc_mandelbrot / mandelbrot (same file);                           *)
(*   - open_draw_frame / close_draw_frame, create_solid_pen, draw_line,    *)
(*     close_draw_lines (src/src/drawing/primitives.rs) over a small model *)
(*     of the GDI objects they handle.                                     *)
(*                                                                         *)
(* The galaxy state machine works on f64 values and its turning points     *)
(* depend on how repeated additions of 0.1 round, so f64 arithmetic is     *)
(* modelled bit-exactly (binary64, round to nearest, ties to even) on the  *)
(* range the program uses: no NaN, infinity or subnormal arises from the   *)
(* inputs the specifications draw.                                         *)
(***************************************************************************)
EXTENDS Integers, Sequences, FiniteSets, TLC

(***************************************************************************)
(* Natural numbers wider than TLC's integers: little-endian sequences of   *)
(* 14-bit limbs without leading zero limbs (zero is << >>).  They carry    *)
(* the 53-bit significands of f64 values and the wider exact sums,         *)
(* products and quotients that are then rounded.                           *)
(***************************************************************************)
LimbBits == 7 + 7

Base == 2 ^ LimbBits

Max2(a, b) == IF a >= b THEN a ELSE b

Min2(a, b) == IF a <= b THEN a ELSE b

Limb(a, i) == IF i >= 1 /\ i <= Len(a) THEN a[i] ELSE 0

RECURSIVE BTrim(_)
BTrim(a) ==
    IF a = << >> THEN << >>
    ELSE IF a[Len(a)] = 0 THEN BTrim(SubSeq(a, 1, Len(a) - 1))
    ELSE a

RECURSIVE BFromInt(_)
BFromInt(n) == IF n = 0 THEN << >> ELSE <<n % Base>> \o BFromInt(n \div Base)

RECURSIVE BToInt(_)
BToInt(a) == IF a = << >> THEN 0 ELSE a[1] + Base * BToInt(Tail(a))

RECURSIVE BAddC(_, _, _, _)
BAddC(a, b, i, c) ==
    IF i > Max2(Len(a), Len(b))
    THEN IF c = 0 THEN << >> ELSE <<c>>
    ELSE LET s == Limb(a, i) + Limb(b, i) + c
         IN  <<s % Base>> \o BAddC(a, b, i + 1, s \div Base)

BAdd(a, b) == BAddC(a, b, 1, 0)

\* a - b for a >= b
RECURSIVE BSubC(_, _, _, _)
BSubC(a, b, i, c) ==
    IF i > Len(a) THEN << >>
    ELSE LET s == a[i] - Limb(b, i) - c
         IN  IF s < 0 THEN <<s + Base>> \o BSubC(a, b, i + 1, 1)
                      ELSE <<s>> \o BSubC(a, b, i + 1, 0)

BSub(a, b) == BTrim(BSubC(a, b, 1, 0))

\* -1, 0, 1 as a < b, a = b, a > b
RECURSIVE BCmpAt(_, _, _)
BCmpAt(a, b, i) ==
    IF i = 0 THEN 0
    ELSE IF a[i] < b[i] THEN -1
    ELSE IF a[i] > b[i] THEN 1
    ELSE BCmpAt(a, b, i - 1)

BCmp(a, b) ==
    IF Len(a) < Len(b) THEN -1
    ELSE IF Len(a) > Len(b) THEN 1
    ELSE BCmpAt(a, b, Len(a))

RECURSIVE BMulSmallC(_, _, _, _)
BMulSmallC(a, k, i, c) ==
    IF i > Len(a)
    THEN IF c = 0 THEN << >> ELSE <<c>>
    ELSE LET s == a[i] * k + c
         IN  <<s % Base>> \o BMulSmallC(a, k, i + 1, s \div Base)

\* a * k for 0 <= k <= Base
BMulSmall(a, k) == BTrim(BMulSmallC(a, k, 1, 0))

RECURSIVE ColSum(_, _, _, _)
ColSum(a, b, k, i) ==
    IF i > Min2(Len(a), k - 1) THEN 0
    ELSE a[i] * b[k - i] + ColSum(a, b, k, i + 1)

RECURSIVE BMulC(_, _, _, _)
BMulC(a, b, k, c) ==
    IF k > Len(a) + Len(b)
    THEN IF c = 0 THEN << >> ELSE <<c>>
    ELSE LET s == c + ColSum(a, b, k, Max2(1, k - Len(b)))
         IN  <<s % Base>> \o BMulC(a, b, k + 1, s \div Base)

\* a * b for operands of at most four limbs
BMul(a, b) == BTrim(BMulC(a, b, 2, 0))

Zeros(n) == [i \in 1..n |-> 0]

BShl(a, n) ==
    IF a = << >> THEN << >>
    ELSE Zeros(n \div LimbBits) \o BMulSmall(a, 2 ^ (n % LimbBits))

BShr(a, n) ==
    LET q == n \div LimbBits
        r == n % LimbBits
        t == IF q >= Len(a) THEN << >> ELSE SubSeq(a, q + 1, Len(a))
    IN  BTrim([i \in 1..Len(t) |->
                 (t[i] \div (2 ^ r)) + (Limb(t, i + 1) % (2 ^ r)) * (2 ^ (LimbBits - r))])

\* a mod 2^n
BLowBits(a, n) ==
    LET q == n \div LimbBits
        r == n % LimbBits
    IN  IF q >= Len(a) THEN a
        ELSE BTrim(SubSeq(a, 1, q) \o <<a[q + 1] % (2 ^ r)>>)

SmallBits(x) == CHOOSE k \in 0..LimbBits : (x < 2 ^ k) /\ (k = 0 \/ x >= 2 ^ (k - 1))

BitLen(a) == IF a = << >> THEN 0 ELSE LimbBits * (Len(a) - 1) + SmallBits(a[Len(a)])

BIsOdd(a) == a # << >> /\ a[1] % 2 = 1

\* <<q, r - q * d>> for a d of four limbs and the largest q of qhat,
\* qhat - 1, qhat - 2 that leaves r - q * d >= 0: the subtraction runs limb
\* by limb, each limb passing its borrow (\div rounds down, so a negative
\* partial sum gives a negative carry) to the next.
RECURSIVE QuotRem(_, _, _)
QuotRem(r, d, qhat) ==
    LET s1 == Limb(r, 1) - qhat * d[1]
        s2 == Limb(r, 2) - qhat * d[2] + (s1 \div Base)
        s3 == Limb(r, 3) - qhat * d[3] + (s2 \div Base)
        s4 == Limb(r, 4) - qhat * d[4] + (s3 \div Base)
        s5 == Limb(r, 5) + (s4 \div Base)
    IN  IF s5 < 0 THEN QuotRem(r, d, qhat - 1)
        ELSE <<qhat, BTrim(<<s1 % Base, s2 % Base, s3 % Base, s4 % Base, s5>>)>>

\* One digit of long division by a d of four limbs: r < d * Base, and d's
\* top limb is at least Base / 2, so the estimate from the top limbs is at
\* most 2 too large.
QuotDigit(r, d) ==
    QuotRem(r, d, Min2(Base - 1, (Limb(r, 5) * Base + Limb(r, 4)) \div d[4]))

\* Long division by limbs, most significant first: limb k of n is brought
\* down to the remainder r and gives the next digit of the quotient q,
\* until every limb has given its digit.
RECURSIVE BDivStep(_, _, _, _, _)

BDivNext(n, d, k, q, dr) == BDivStep(n, d, k - 1, <<dr[1]>> \o q, dr[2])

BDivStep(n, d, k, q, r) ==
    IF k = 0 THEN <<BTrim(q), r>>
    ELSE BDivNext(n, d, k, q, QuotDigit(<<n[k]>> \o r, d))

\* <<n div d, n mod d>> for a d of four limbs with a top limb of at least
\* Base / 2: the top three limbs of n are less than d and give no digit
BDivMod(n, d) ==
    IF Len(n) < Len(d) THEN << << >>, n >>
    ELSE BDivStep(n, d, Len(n) - Len(d) + 1, << >>,
                  BTrim(SubSeq(n, Len(n) - Len(d) + 2, Len(n))))

(***************************************************************************)
(* f64 values: [s |-> 1 or -1, m |-> significand, e |-> exponent] stands   *)
(* for s * m * 2^e with 2^52 <= m < 2^53, or for zero (m = << >>); the     *)
(* form is canonical, so record equality is numeric equality (the two      *)
(* signed zeros are one value, as they are for ==, != and `as i32`).       *)
(***************************************************************************)
SigBits == 53

FZero == [s |-> 1, m |-> << >>, e |-> 0]

IsZero(a) == a.m = << >>

\* s * M * 2^e rounded to the nearest f64, ties to even
FRound(s, M, e) ==
    LET L == BitLen(M) IN
    IF L = 0 THEN FZero
    ELSE IF L <= SigBits THEN [s |-> s, m |-> BShl(M, SigBits - L), e |-> e - (SigBits - L)]
    ELSE LET sh == L - SigBits
             q  == BShr(M, sh)
             c  == BCmp(BLowBits(M, sh), BShl(<<1>>, sh - 1))
             q1 == IF c > 0 \/ (c = 0 /\ BIsOdd(q)) THEN BAdd(q, <<1>>) ELSE q
         IN  IF BitLen(q1) > SigBits
             THEN [s |-> s, m |-> BShr(q1, 1), e |-> e + sh + 1]
             ELSE [s |-> s, m |-> q1, e |-> e + sh]

\* integer as f64 (exact below 2^53)
FromInt(n) == IF n < 0 THEN FRound(-1, BFromInt(-n), 0) ELSE FRound(1, BFromInt(n), 0)

FNeg(a) == IF IsZero(a) THEN a ELSE [a EXCEPT !.s = -a.s]

\* f64 +
FAdd(a, b) ==
    IF IsZero(a) THEN b
    ELSE IF IsZero(b) THEN a
    ELSE LET e  == Min2(a.e, b.e)
             Ma == BShl(a.m, a.e - e)
             Mb == BShl(b.m, b.e - e)
             c  == BCmp(Ma, Mb)
         IN  IF a.s = b.s THEN FRound(a.s, BAdd(Ma, Mb), e)
             ELSE IF c = 0 THEN FZero
             ELSE IF c > 0 THEN FRound(a.s, BSub(Ma, Mb), e)
             ELSE FRound(b.s, BSub(Mb, Ma), e)

\* f64 -
FSub(a, b) == FAdd(a, FNeg(b))

\* the significand of a power of two
PowerOfTwo == BShl(<<1>>, SigBits - 1)

\* f64 *: exact by a power of two, rounded once otherwise
FMul(a, b) ==
    IF IsZero(a) \/ IsZero(b) THEN FZero
    ELSE IF a.m = PowerOfTwo THEN [s |-> a.s * b.s, m |-> b.m, e |-> a.e + b.e + (SigBits - 1)]
    ELSE IF b.m = PowerOfTwo THEN [s |-> a.s * b.s, m |-> a.m, e |-> a.e + b.e + (SigBits - 1)]
    ELSE FRound(a.s * b.s, BMul(a.m, b.m), a.e + b.e)

\* f64 / for a non-zero divisor: the quotient to 56 or more bits, a sticky
\* bit for the remainder below it, rounded once (both significands are
\* shifted so that the divisor fills its top limb)
FDiv(a, b) ==
    IF IsZero(a) THEN FZero
    ELSE IF a.m = b.m THEN FRound(a.s * b.s, <<1>>, a.e - b.e)
    ELSE LET qr == BDivMod(BShl(a.m, SigBits + 6), BShl(b.m, 4 * LimbBits - SigBits))
             M  == BAdd(BMulSmall(qr[1], 2), IF qr[2] = << >> THEN << >> ELSE <<1>>)
         IN  FRound(a.s * b.s, M, a.e - b.e - (SigBits + 3) - 1)

\* -1, 0, 1 as a < b, a == b, a > b
FCmp(a, b) ==
    LET mag == IF a.e + 0 # b.e THEN (IF a.e < b.e THEN -1 ELSE 1) ELSE BCmp(a.m, b.m) IN
    IF IsZero(a) THEN (IF IsZero(b) THEN 0 ELSE -b.s)
    ELSE IF IsZero(b) THEN a.s
    ELSE IF a.s # b.s THEN a.s
    ELSE a.s * mag

FGt(a, b) == FCmp(a, b) > 0

FLt(a, b) == FCmp(a, b) < 0

FLe(a, b) == FCmp(a, b) <= 0

\* `as i32`: truncation toward zero (the values drawn stay far inside i32)
FToI32(a) ==
    IF IsZero(a) THEN 0
    ELSE IF a.e >= 0 THEN a.s * BToInt(BShl(a.m, a.e))
    ELSE a.s * BToInt(BShr(a.m, -a.e))

FOne == FromInt(1)

\* the literal 0.1: the f64 nearest to one tenth
Tenth == FDiv(FromInt(1), FromInt(10))

\* std::f64::consts::PI = 0x400921FB54442D18
PI == [s |-> 1, m |-> <<11544, 4368, 8117, 1608>>, e |-> -51]

(***************************************************************************)
(* cos and sin are modelled at 0, where they are exact.  The galaxies the  *)
(* specifications draw have hptr_x = hptr_y, which makes h_delta and q     *)
(* zero: the curve point is then diameter plus the blend of the Prior      *)
(* Origin and the galaxy position, with no transcendental term left (the   *)
(* product of a zero h_delta with a finite cosine or sine is zero).        *)
(***************************************************************************)
FCos(a) == CASE IsZero(a) -> FOne

FSin(a) == CASE IsZero(a) -> FZero

(***************************************************************************)
(* Galaxy (beauty_math.rs): the struct, its two constructors, and literal  *)
(* values of the struct (all fields are pub).                              *)
(***************************************************************************)
GalaxyNew(mouse_x, mouse_y, screen_w, screen_h, color) ==
    [x |-> mouse_x, y |-> mouse_y, color |-> color,
     diameter |-> FromInt(9), max_diameter |-> FromInt(450), curvature |-> 10,
     theta |-> FZero, theta_step |-> FDiv(FMul(FromInt(360), PI), FromInt(180)),
     is_max_radius |-> FALSE,
     hptr_x |-> FDiv(FDiv(mouse_x, FromInt(screen_w * 999)), FromInt(999)),
     hptr_y |-> FDiv(FDiv(mouse_y, FromInt(screen_h * 999)), FromInt(999))]

GalaxyEmpty ==
    [x |-> FZero, y |-> FZero, color |-> 0,
     diameter |-> FZero, max_diameter |-> FZero, curvature |-> 0,
     theta |-> FZero, theta_step |-> FZero, is_max_radius |-> FALSE,
     hptr_x |-> FZero, hptr_y |-> FZero]

\* Galaxy { x, y, color, curvature, diameter: 0.9, max_diameter: 1.2,
\*          theta_step: 1.0, hptr_x: 1.0, hptr_y: 1.0, ..Galaxy::empty() }
GalaxyLiteral(x, y, color, curvature) ==
    [GalaxyEmpty EXCEPT !.x = FromInt(x), !.y = FromInt(y), !.color = color,
                        !.curvature = curvature,
                        !.diameter = FDiv(FromInt(9), FromInt(10)),
                        !.max_diameter = FDiv(FromInt(12), FromInt(10)),
                        !.theta_step = FOne, !.hptr_x = FOne, !.hptr_y = FOne]

(***************************************************************************)
(* The GDI objects the pen helpers touch (primitives.rs): the pen selected *)
(* into the surface and the set of live pens.  A call of                   *)
(* draw_galaxy_step_inc runs on an execution record X: the galaxy, the     *)
(* statics ORIG_X and ORIG_Y, the surface's pen state, the locals prev_x,  *)
(* prev_y and draw_lines_data, and the trace tr of what the call did.      *)
(***************************************************************************)
StockPen == 0

\* CreatePen returns a handle that is not live
NewHandle(live) == CHOOSE h \in 1..(Cardinality(live) + 1) : h \notin live

\* primitives.rs 70-78
create_solid_pen(X, color) ==
    LET pen == NewHandle(X.pens) IN
    [X EXCEPT !.pens = @ \cup {pen},
              !.dcPen = pen,
              !.draw_lines_data = [pen |-> pen, old_pen |-> X.dcPen],
              !.tr = @ \o << [op |-> "CreatePen", pen |-> pen, color |-> color],
                             [op |-> "SelectObject", obj |-> pen, old |-> X.dcPen] >>]

\* primitives.rs 80-83, with the pen the line is drawn with
draw_line(X, from, to) ==
    [X EXCEPT !.tr = Append(@, [op |-> "draw_line", from |-> from, to |-> to,
                                pen |-> X.dcPen, pen_live |-> X.dcPen \in X.pens])]

\* Variant of close_draw_lines that destroys the pen and leaves it selected:
\* DeleteObject fails on an object that is selected into a surface.
close_draw_lines_no_restore(X) ==
    LET data == X.draw_lines_data IN
    [X EXCEPT !.pens = IF X.dcPen = data.pen THEN @ ELSE @ \ {data.pen},
              !.tr = Append(@, [op |-> "DeleteObject", obj |-> data.pen])]

\* primitives.rs 85-88; DeleteObject fails on an object that is selected
\* into a surface
close_draw_lines(X) ==
    LET data == X.draw_lines_data IN
    [X EXCEPT !.dcPen = data.old_pen,
              !.pens = IF data.old_pen = data.pen THEN @ ELSE @ \ {data.pen},
              !.tr = @ \o << [op |-> "SelectObject", obj |-> data.old_pen, old |-> X.dcPen],
                             [op |-> "DeleteObject", obj |-> data.pen] >>]

\* Variant of ShrinkTaken that tests the latch alone.
ShrinkTaken_latch_only(gal) == gal.is_max_radius

\* beauty_math.rs 66: the condition of the Shrinking block
ShrinkTaken(gal) == FGt(gal.diameter, gal.max_diameter) \/ gal.is_max_radius

\* beauty_math.rs 77: the condition of the Growing block
GrowTaken(gal) == ~gal.is_max_radius

\* Variant of ClearTaken that waits for the diameter to go negative.
ClearTaken_below_zero(gal) == FLt(gal.diameter, FZero)

\* beauty_math.rs 70: the condition that clears the latch
ClearTaken(gal) == FLt(gal.diameter, Tenth)

\* beauty_math.rs 66-75: the Shrinking block
ShrinkUpdate(gal) ==
    IF ShrinkTaken(gal)
    THEN [gal EXCEPT !.is_max_radius = ~ClearTaken(gal),
                     !.theta = FSub(gal.theta, gal.theta_step),
                     !.diameter = FSub(gal.diameter, Tenth)]
    ELSE gal

\* Variant of GrowUpdate that leaves theta alone.
GrowUpdate_diameter_only(gal) ==
    IF GrowTaken(gal) THEN [gal EXCEPT !.diameter = FAdd(gal.diameter, Tenth)] ELSE gal

\* beauty_math.rs 77-80: the Growing block
GrowUpdate(gal) ==
    IF GrowTaken(gal)
    THEN [gal EXCEPT !.theta = FAdd(gal.theta, gal.theta_step),
                     !.diameter = FAdd(gal.diameter, Tenth)]
    ELSE gal

\* Variant of UpdateGalaxy with the Growing block as the else branch of the
\* Shrinking block.
UpdateGalaxy_else(gal) == IF ShrinkTaken(gal) THEN ShrinkUpdate(gal) ELSE GrowUpdate(gal)

\* beauty_math.rs 66-80: the two blocks, one after the other
UpdateGalaxy(gal) == GrowUpdate(ShrinkUpdate(gal))

\* beauty_math.rs 82-90: the point of sub-index curv_step
CurPoint(gal, curv_step, orig_x, orig_y) ==
    LET hx == gal.hptr_x
        hy == gal.hptr_y
        q  == FMul(FSub(FDiv(hx, hy), FOne), gal.theta)
        curvature == FDiv(FromInt(curv_step), FromInt(gal.curvature))
        h_delta == FSub(hx, hy)
    IN  << FSub(FAdd(FAdd(FMul(h_delta, FCos(gal.theta)), FMul(gal.diameter, FCos(q))),
                     FAdd(orig_x, FMul(FSub(gal.x, orig_x), curvature))),
                h_delta),
           FAdd(FSub(FMul(h_delta, FSin(gal.theta)), FMul(gal.diameter, FSin(q))),
                FAdd(orig_y, FMul(FSub(gal.y, orig_y), curvature))) >>

\* beauty_math.rs 92: the test that stands for "a previous point exists"
HasPrev(prev_x) == ~IsZero(prev_x)

\* beauty_math.rs 92-97: the end of a pass, given the galaxy g2 as updated
\* and the point cur computed from it
LoopBodyDraw(X, g2, cur) ==
    LET ev  == [op |-> "sub_step", curv_step |-> X.curv_step,
                entry |-> X.gal, exit |-> g2,
                orig |-> <<X.ORIG_X, X.ORIG_Y>>, prev |-> <<X.prev_x, X.prev_y>>, cur |-> cur]
        X1  == [X EXCEPT !.gal = g2, !.tr = Append(@, ev)]
        X2  == IF HasPrev(X.prev_x)
               THEN draw_line(X1, <<FToI32(X.prev_x), FToI32(X.prev_y)>>,
                                  <<FToI32(cur[1]), FToI32(cur[2])>>)
               ELSE X1
    IN  [X2 EXCEPT !.prev_x = cur[1], !.prev_y = cur[2], !.curv_step = X.curv_step - 1]

\* beauty_math.rs 82-97: the rest of a pass, given the galaxy g2 as updated
LoopBodyPoint(X, g2) == LoopBodyDraw(X, g2, CurPoint(g2, X.curv_step, X.ORIG_X, X.ORIG_Y))

\* beauty_math.rs 66-97: one pass of the loop body, for sub-index X.curv_step
LoopBody(X) == LoopBodyPoint(X, UpdateGalaxy(X.gal))

\* beauty_math.rs 65: for curv_step in (0..galaxy.curvature).rev()
RECURSIVE Loop(_)
Loop(X) == IF X.curv_step < 0 THEN X ELSE Loop(LoopBody(X))

\* beauty_math.rs 101-104
StoreOrig(X) ==
    [X EXCEPT !.ORIG_X = X.gal.x, !.ORIG_Y = X.gal.y,
              !.tr = Append(@, [op |-> "store_orig", x |-> X.gal.x, y |-> X.gal.y])]

\* beauty_math.rs 61 and 105: the function has no return type and no early
\* exit; it falls off its end and hands () to the caller
Return(X) == [X EXCEPT !.ret = "unit"]

\* Variant of draw_galaxy_step_inc that stores the Prior Origin before the
\* loop.
draw_galaxy_step_inc_store_first(X) ==
    Return(close_draw_lines(Loop(
        [StoreOrig(create_solid_pen(X, X.gal.color)) EXCEPT !.prev_x = FZero, !.prev_y = FZero,
                                                            !.curv_step = X.gal.curvature - 1])))

\* beauty_math.rs 61-105, on the execution record the caller sets up
draw_galaxy_step_inc(X) ==
    Return(StoreOrig(close_draw_lines(Loop(
        [create_solid_pen(X, X.gal.color) EXCEPT !.prev_x = FZero, !.prev_y = FZero,
                                                 !.curv_step = X.gal.curvature - 1]))))

(***************************************************************************)
(* calc_mandelbrot and mandelbrot (beauty_math.rs 155-183).                *)
(***************************************************************************)
\* beauty_math.rs 175-180: the loop, on st = [x, y, i]
RECURSIVE MandelLoop(_, _, _, _)
MandelLoop(st, cx, cy, max_iter) ==
    IF FLe(FAdd(FMul(st.x, st.x), FMul(st.y, st.y)), FromInt(4)) /\ st.i < max_iter
    THEN MandelLoop([x |-> FAdd(FSub(FMul(st.x, st.x), FMul(st.y, st.y)), cx),
                     y |-> FAdd(FMul(FMul(FromInt(2), st.x), st.y), cy),
                     i |-> st.i + 1], cx, cy, max_iter)
    ELSE st

\* Variant of mandelbrot whose loop runs while x*x + y*y < 4.0.
RECURSIVE MandelLoop_strict(_, _, _, _)
MandelLoop_strict(st, cx, cy, max_iter) ==
    IF FLt(FAdd(FMul(st.x, st.x), FMul(st.y, st.y)), FromInt(4)) /\ st.i < max_iter
    THEN MandelLoop_strict([x |-> FAdd(FSub(FMul(st.x, st.x), FMul(st.y, st.y)), cx),
                            y |-> FAdd(FMul(FMul(FromInt(2), st.x), st.y), cy),
                            i |-> st.i + 1], cx, cy, max_iter)
    ELSE st

mandelbrot_strict(cx, cy, max_iter) ==
    MandelLoop_strict([x |-> FZero, y |-> FZero, i |-> 0], cx, cy, max_iter).i

\* beauty_math.rs 170-183
mandelbrot(cx, cy, max_iter) == MandelLoop([x |-> FZero, y |-> FZero, i |-> 0], cx, cy, max_iter).i

\* Variant of PixelCoord: (x as f64 - width as f64) / 2.0 * 4.0 / width as f64
PixelCoord_paren(x, width) ==
    FDiv(FMul(FDiv(FSub(FromInt(x), FromInt(width)), FromInt(2)), FromInt(4)), FromInt(width))

\* beauty_math.rs 158-159: (x as f64 - width as f64 / 2.0) * 4.0 / width as f64
PixelCoord(x, width) ==
    FDiv(FMul(FSub(FromInt(x), FDiv(FromInt(width), FromInt(2))), FromInt(4)), FromInt(width))

\* beauty_math.rs 161-162
PixelColor(count) ==
    LET color_value == count % 256
    IN  color_value * 65536 + color_value * 256 + color_value

\* beauty_math.rs 155-167: the buffer after the call; slot y * width + x of
\* the Vec is element y * width + x + 1 of the sequence
calc_mandelbrot(width, height, max_iter, pixels) ==
    [i \in 1..Len(pixels) |->
        LET x == (i - 1) % width
            y == (i - 1) \div width
        IN  IF y < height
            THEN PixelColor(mandelbrot(PixelCoord(x, width), PixelCoord(y, height), max_iter))
            ELSE pixels[i]]

(***************************************************************************)
(* interpolate_colors and interpolate_floats (colors.rs 28-66).  They work *)
(* in f32.  An f32 value is held here as the f64 it widens to, and an f32  *)
(* operation is the f64 operation rounded to F32Bits significant bits: for *)
(* +, -, * and / the two roundings give the f32 result, since f64 has more *)
(* than twice the bits of f32 plus two.  A slice index at or past the      *)
(* length panics.                                                          *)
(***************************************************************************)
F32Bits == 24

\* the nearest f32, ties to even
ToF32(a) ==
    IF IsZero(a) THEN a
    ELSE LET drop == SigBits - F32Bits
             q    == BShr(a.m, drop)
             c    == BCmp(BLowBits(a.m, drop), BShl(<<1>>, drop - 1))
         IN  FRound(a.s, IF c > 0 \/ (c = 0 /\ BIsOdd(q)) THEN BAdd(q, <<1>>) ELSE q, a.e + drop)

F32Add(a, b) == ToF32(FAdd(a, b))

F32Sub(a, b) == ToF32(FSub(a, b))

F32Mul(a, b) == ToF32(FMul(a, b))

F32Div(a, b) == ToF32(FDiv(a, b))

\* `.floor() as usize` of a finite value: a negative value floors below zero
\* and the cast saturates at 0
FloorUsize(a) == IF IsZero(a) \/ a.s < 0 THEN 0 ELSE FToI32(a)

\* `as u8`: truncation toward zero, saturating
AsU8(a) == Max2(0, Min2(255, FToI32(a)))

\* colors.rs 30 and 52, for num_colors >= 2
Segment(num_colors) == F32Div(FOne, ToF32(FromInt(num_colors - 1)))

\* colors.rs 30-33 and 52-55.  With one stop the divisor is 0.0, segment is
\* +infinity and weight / segment is 0.0 for every finite weight.
IndexOne(num_colors, weight) ==
    IF num_colors = 1 THEN 0
    ELSE FloorUsize(F32Div(weight, Segment(num_colors)))

\* colors.rs 40 and 62
SegmentWeight(num_colors, weight, index1) ==
    F32Div(F32Sub(weight, F32Mul(ToF32(FromInt(index1)), Segment(num_colors))),
           Segment(num_colors))

\* colors.rs 43-45 and 65
Blend(segment_weight, v1, v2) ==
    F32Add(F32Mul(F32Sub(FOne, segment_weight), v1), F32Mul(segment_weight, v2))

\* an index expression s[i] on a slice of length len
IndexPanics(i, len) == i >= len

Panic(i, len) == [kind |-> "panic", index |-> i, len |-> len]

\* winapi::um::wingdi::RGB
RGB(r, g, b) == r + g * 256 + b * 65536

\* colors.rs 50-66; element i of the slice is element i + 1 of the sequence
interpolate_floats(floats, weight) ==
    LET num_colors == Len(floats)
        index1     == IndexOne(num_colors, weight)
        index2     == index1 + 1
    IN  IF IndexPanics(index1, num_colors) THEN Panic(index1, num_colors)
        ELSE IF IndexPanics(index2, num_colors) THEN Panic(index2, num_colors)
        ELSE [kind |-> "value",
              value |-> Blend(SegmentWeight(num_colors, weight, index1),
                              floats[index1 + 1], floats[index2 + 1])]

\* colors.rs 43-45: one channel
Channel(segment_weight, c1, c2) ==
    AsU8(Blend(segment_weight, ToF32(FromInt(c1)), ToF32(FromInt(c2))))

\* colors.rs 28-48
interpolate_colors(colors, weight) ==
    LET num_colors == Len(colors)
        index1     == IndexOne(num_colors, weight)
        index2     == index1 + 1
    IN  IF IndexPanics(index1, num_colors) THEN Panic(index1, num_colors)
        ELSE IF IndexPanics(index2, num_colors) THEN Panic(index2, num_colors)
        ELSE [kind |-> "value",
              value |-> RGB(Channel(SegmentWeight(num_colors, weight, index1),
                                    colors[index1 + 1].r, colors[index2 + 1].r),
                            Channel(SegmentWeight(num_colors, weight, index1),
                                    colors[index1 + 1].g, colors[index2 + 1].g),
                            Channel(SegmentWeight(num_colors, weight, index1),
                                    colors[index1 + 1].b, colors[index2 + 1].b))]

(***************************************************************************)
(* open_draw_frame and close_draw_frame (primitives.rs 50-68) over the GDI *)
(* objects they handle.  gdi = [dcs, bitmaps]: dcs maps each live surface  *)
(* handle to the bitmap selected into it, bitmaps maps each live bitmap to *)
(* its content, a set of strokes.  A memory surface is created with the    *)
(* stock 1x1 bitmap selected, on which nothing can be drawn; DeleteObject  *)
(* fails on a bitmap that is selected into a surface.                      *)
(***************************************************************************)
TargetDC == 1

ScreenBmp == 1

StockBmp == 0

Blank == {}

Content(gdi, hdc) == gdi.bitmaps[gdi.dcs[hdc]]

Selected(gdi, bmp) == \E h \in DOMAIN gdi.dcs : gdi.dcs[h] = bmp

Without(f, k) == [j \in DOMAIN f \ {k} |-> f[j]]

With(f, k, v) == [j \in DOMAIN f \cup {k} |-> IF j = k THEN v ELSE f[j]]

NewKey(f) == CHOOSE h \in 1..(Cardinality(DOMAIN f) + 1) : h \notin DOMAIN f

\* a frame execution record F = [gdi, ret, tr]
CreateCompatibleDC(F) ==
    LET h == NewKey(F.gdi.dcs) IN
    [F EXCEPT !.gdi.dcs = With(@, h, StockBmp), !.ret = h,
              !.tr = Append(@, [op |-> "CreateCompatibleDC", obj |-> h])]

CreateCompatibleBitmap(F) ==
    LET b == NewKey(F.gdi.bitmaps) IN
    [F EXCEPT !.gdi.bitmaps = With(@, b, Blank), !.ret = b,
              !.tr = Append(@, [op |-> "CreateCompatibleBitmap", obj |-> b])]

SelectObject(F, hdc, bmp) ==
    [F EXCEPT !.gdi.dcs[hdc] = bmp, !.ret = F.gdi.dcs[hdc],
              !.tr = Append(@, [op |-> "SelectObject", obj |-> bmp])]

\* SRCCOPY of the whole surface: the target's content becomes the source's
BitBlt(F, dst, src) ==
    [F EXCEPT !.gdi.bitmaps[F.gdi.dcs[dst]] = Content(F.gdi, src),
              !.tr = Append(@, [op |-> "BitBlt", obj |-> src])]

DeleteObject(F, bmp) ==
    [F EXCEPT !.gdi.bitmaps = IF Selected(F.gdi, bmp) \/ bmp = StockBmp THEN @ ELSE Without(@, bmp),
              !.tr = Append(@, [op |-> "DeleteObject", obj |-> bmp])]

DeleteDC(F, hdc) ==
    [F EXCEPT !.gdi.dcs = Without(@, hdc),
              !.tr = Append(@, [op |-> "DeleteDC", obj |-> hdc])]

\* primitives.rs 50-58: F.ret is the DrawFrameData returned
open_draw_frame(F, hdc) ==
    LET F1 == CreateCompatibleDC(F)
        h_mem_dc == F1.ret
        F2 == CreateCompatibleBitmap(F1)
        h_bmp_mem == F2.ret
        F3 == SelectObject(F2, h_mem_dc, h_bmp_mem)
        h_old_bmp_mem == F3.ret
    IN  [F3 EXCEPT !.ret = [hdc |-> h_mem_dc, h_bmp_mem |-> h_bmp_mem,
                            h_old_bmp_mem |-> h_old_bmp_mem]]

\* Variant of close_draw_frame that copies after the bitmap is unbound.
close_draw_frame_late_copy(F, hdc, draw_frame_data) ==
    DeleteDC(
        DeleteObject(
            BitBlt(SelectObject(F, draw_frame_data.hdc, draw_frame_data.h_old_bmp_mem),
                   hdc, draw_frame_data.hdc),
            draw_frame_data.h_bmp_mem),
        draw_frame_data.hdc)

\* Variant of close_draw_frame that deletes the bitmap while it is bound.
close_draw_frame_no_unbind(F, hdc, draw_frame_data) ==
    DeleteDC(
        DeleteObject(BitBlt(F, hdc, draw_frame_data.hdc), draw_frame_data.h_bmp_mem),
        draw_frame_data.hdc)

\* primitives.rs 60-68
close_draw_frame(F, hdc, draw_frame_data) ==
    DeleteDC(
        DeleteObject(
            SelectObject(BitBlt(F, hdc, draw_frame_data.hdc),
                         draw_frame_data.hdc, draw_frame_data.h_old_bmp_mem),
            draw_frame_data.h_bmp_mem),
        draw_frame_data.hdc)

\* primitives.rs 80-83 on a frame's surface: the stroke lands on the bitmap
\* selected into the surface
DrawStroke(gdi, hdc, stroke) ==
    IF gdi.dcs[hdc] = StockBmp THEN gdi
    ELSE [gdi EXCEPT !.bitmaps[gdi.dcs[hdc]] = @ \cup {stroke}]

(***************************************************************************)
(* State.  galaxies: the Galaxy values the host owns, by name.  ORIG_X,    *)
(* ORIG_Y: the statics of beauty_math.rs.  dcPen, pens: the pen selected   *)
(* into the surface the host draws on, and the live pens.  lastCall: what  *)
(* the most recent call of draw_galaxy_step_inc was given and did;         *)
(* prevId: the galaxy of the call before it; ticks: the calls made.        *)
(* gdi: surfaces and bitmaps; sessions: the DrawFrameData values the host  *)
(* holds, each with the serial number of its open; opened: sessions opened *)
(* so far; closed: the serials closed, in order; lastFrame: what the most  *)
(* recent frame operation was given and did.  mb: the arguments and the    *)
(* pixel buffer of a calc_mandelbrot call, and whether it has run.  ip:    *)
(* the stops and the weight of a call of interpolate_floats and one of     *)
(* interpolate_colors, and what the two calls gave once they have run.     *)
(***************************************************************************)
VARIABLES galaxies, ORIG_X, ORIG_Y, dcPen, pens, lastCall, prevId, ticks,
          gdi, sessions, opened, closed, lastFrame, mb, ip

galaxyVars == <<galaxies, ORIG_X, ORIG_Y, dcPen, pens, lastCall, prevId, ticks>>

frameVars == <<gdi, sessions, opened, closed, lastFrame>>

vars == <<galaxies, ORIG_X, ORIG_Y, dcPen, pens, lastCall, prevId, ticks,
          gdi, sessions, opened, closed, lastFrame, mb, ip>>

NoCall == [id |-> "none", entry |-> GalaxyEmpty, orig |-> <<FZero, FZero>>,
           pen |-> StockPen, pens |-> {StockPen}, tr |-> << >>, ret |-> "none"]

\* beauty_math.rs 6-7 and a surface with its default pen selected
InitStatics ==
    /\ ORIG_X = FZero
    /\ ORIG_Y = FZero
    /\ dcPen = StockPen
    /\ pens = {StockPen}
    /\ lastCall = NoCall
    /\ prevId = "none"
    /\ ticks = 0

NoGalaxies == galaxies = [id \in {"a"} |-> GalaxyEmpty]

InitGdi == [dcs |-> [h \in {TargetDC} |-> ScreenBmp],
            bitmaps |-> [b \in {StockBmp, ScreenBmp} |-> Blank]]

NoFrameOp == [op |-> "none", serial |-> 0, before |-> InitGdi, tr |-> << >>]

\* the visible surface with nothing drawn and no session open
InitFrames ==
    /\ gdi = InitGdi
    /\ sessions = {}
    /\ opened = 0
    /\ closed = << >>
    /\ lastFrame = NoFrameOp

NoMandel == mb = [width |-> 0, height |-> 0, max_iter |-> 0, pixels |-> << >>, done |-> FALSE]

NoInterp == ip = [floats |-> << >>, colors |-> << >>, weight |-> FZero, done |-> FALSE]

\* the host calls draw_galaxy_step_inc(hdc, &mut galaxies[id])
Tick(id) ==
    \E X \in {draw_galaxy_step_inc(
                 [gal |-> galaxies[id], ORIG_X |-> ORIG_X, ORIG_Y |-> ORIG_Y,
                  dcPen |-> dcPen, pens |-> pens,
                  draw_lines_data |-> [pen |-> StockPen, old_pen |-> StockPen],
                  prev_x |-> FZero, prev_y |-> FZero, curv_step |-> 0, tr |-> << >>,
                  ret |-> "running"])} :
        /\ galaxies' = [galaxies EXCEPT ![id] = X.gal]
        /\ ORIG_X' = X.ORIG_X
        /\ ORIG_Y' = X.ORIG_Y
        /\ dcPen' = X.dcPen
        /\ pens' = X.pens
        /\ lastCall' = [id |-> id, entry |-> galaxies[id], orig |-> <<ORIG_X, ORIG_Y>>,
                        pen |-> dcPen, pens |-> pens, tr |-> X.tr, ret |-> X.ret]
        /\ prevId' = lastCall.id

(***************************************************************************)
(* SpecGalaxy: two galaxies at different positions, of every curvature up  *)
(* to MaxCurv, stepped in any order, MaxCalls times in all.                *)
(***************************************************************************)
MaxCurv == 3

MaxCalls == 7

InitGalaxy ==
    /\ InitStatics
    /\ InitFrames
    /\ NoMandel
    /\ NoInterp
    /\ \E ca \in 0..MaxCurv, cb \in 0..MaxCurv :
          galaxies = [id \in {"a", "b"} |->
                        IF id = "a" THEN GalaxyLiteral(-2, 1, 1, ca)
                                    ELSE GalaxyLiteral(3, 4, 2, cb)]

StepGalaxy ==
    /\ ticks < MaxCalls
    /\ \E id \in DOMAIN galaxies : Tick(id)
    /\ ticks' = ticks + 1
    /\ UNCHANGED <<frameVars, mb, ip>>

NextGalaxy == StepGalaxy

SpecGalaxy == InitGalaxy /\ [][NextGalaxy]_vars

(***************************************************************************)
(* SpecLife: one galaxy made by Galaxy::new on a square surface with the   *)
(* pointer on its diagonal, stepped without end.  The galaxy's state       *)
(* returns to an earlier one after some thousand calls, so the reachable   *)
(* states are finite once ticks stops counting at MaxTicks.                *)
(***************************************************************************)
MaxTicks == 450

InitLife ==
    /\ InitStatics
    /\ InitFrames
    /\ NoMandel
    /\ NoInterp
    /\ \E m \in {100}, side \in {1080} :
          galaxies = [id \in {"a"} |-> GalaxyNew(FromInt(m), FromInt(m), side, side, 1)]

StepLife ==
    /\ Tick("a")
    /\ ticks' = IF ticks < MaxTicks THEN ticks + 1 ELSE ticks
    /\ UNCHANGED <<frameVars, mb, ip>>

NextLife == StepLife

SpecLife == InitLife /\ [][NextLife]_vars

(***************************************************************************)
(* SpecFrame: the host opens sessions on the visible surface, draws on     *)
(* their surfaces and closes them, in any order, MaxOpens opens in all and *)
(* at most MaxSessions open at a time.  DrawFrameData is neither Copy nor  *)
(* Clone and close_draw_frame takes it by value, so a closed session       *)
(* leaves the host's hands.                                                *)
(***************************************************************************)
MaxOpens == 3

MaxSessions == 2

MaxStroke == 2

InitFrame ==
    /\ InitStatics
    /\ NoGalaxies
    /\ InitFrames
    /\ NoMandel
    /\ NoInterp

OpenFrame ==
    /\ opened < MaxOpens
    /\ Cardinality(sessions) < MaxSessions
    /\ \E F \in {open_draw_frame([gdi |-> gdi, ret |-> 0, tr |-> << >>], TargetDC)} :
          /\ gdi' = F.gdi
          /\ sessions' = sessions \cup {[data |-> F.ret, serial |-> opened + 1]}
          /\ opened' = opened + 1
          /\ lastFrame' = [op |-> "open", serial |-> opened + 1, before |-> gdi, tr |-> F.tr]
    /\ UNCHANGED <<closed, galaxyVars, mb, ip>>

DrawFrame ==
    /\ \E s \in sessions, stroke \in 1..MaxStroke :
          /\ gdi' = DrawStroke(gdi, s.data.hdc, stroke)
          /\ lastFrame' = [op |-> "draw", serial |-> s.serial, before |-> gdi, tr |-> << >>]
    /\ UNCHANGED <<sessions, opened, closed, galaxyVars, mb, ip>>

CloseFrame ==
    /\ \E s \in sessions :
          \E F \in {close_draw_frame([gdi |-> gdi, ret |-> 0, tr |-> << >>], TargetDC, s.data)} :
             /\ gdi' = F.gdi
             /\ sessions' = sessions \ {s}
             /\ closed' = Append(closed, s.serial)
             /\ lastFrame' = [op |-> "close", serial |-> s.serial, before |-> gdi, tr |-> F.tr,
                              data |-> s.data]
    /\ UNCHANGED <<opened, galaxyVars, mb, ip>>

NextFrame == OpenFrame \/ DrawFrame \/ CloseFrame

SpecFrame == InitFrame /\ [][NextFrame]_vars

(***************************************************************************)
(* SpecMandel: calc_mandelbrot on a buffer of width * height zeros, for    *)
(* every width and height up to MaxDim and max_iter up to MaxIter.         *)
(***************************************************************************)
MaxDim == 4

MaxIter == 12

InitMandel ==
    /\ InitStatics
    /\ NoGalaxies
    /\ InitFrames
    /\ NoInterp
    /\ \E w \in 1..MaxDim, h \in 1..MaxDim, n \in 1..MaxIter :
          mb = [width |-> w, height |-> h, max_iter |-> n,
                pixels |-> [i \in 1..(w * h) |-> 0], done |-> FALSE]

CalcMandelbrot ==
    /\ ~mb.done
    /\ mb' = [mb EXCEPT !.pixels = calc_mandelbrot(mb.width, mb.height, mb.max_iter, mb.pixels),
                        !.done = TRUE]
    /\ UNCHANGED <<galaxyVars, frameVars, ip>>

NextMandel == CalcMandelbrot

SpecMandel == InitMandel /\ [][NextMandel]_vars

(***************************************************************************)
(* SpecInterp: interpolate_floats and interpolate_colors on every sequence *)
(* of 1 to MaxStops stops drawn from two values, with the weights 0, 1/4,  *)
(* 1/2, 3/4 and 1.  Stop v is the float v and the colour (v, 255 - v, 7).  *)
(***************************************************************************)
MaxStops == 4

Weights == {FZero, FDiv(FOne, FromInt(4)), FDiv(FOne, FromInt(2)), FDiv(FromInt(3), FromInt(4)), FOne}

StopValues == {0, 200}

InitInterp ==
    /\ InitStatics
    /\ NoGalaxies
    /\ InitFrames
    /\ NoMandel
    /\ \E n \in 1..MaxStops :
          \E stops \in [1..n -> StopValues], w \in Weights :
             ip = [floats |-> [i \in 1..n |-> ToF32(FromInt(stops[i]))],
                   colors |-> [i \in 1..n |-> [r |-> stops[i], g |-> 255 - stops[i], b |-> 7]],
                   weight |-> w, done |-> FALSE]

Interpolate ==
    /\ ~ip.done
    /\ ip' = [floats |-> ip.floats, colors |-> ip.colors, weight |-> ip.weight, done |-> TRUE,
              out_floats |-> interpolate_floats(ip.floats, ip.weight),
              out_colors |-> interpolate_colors(ip.colors, ip.weight)]
    /\ UNCHANGED <<galaxyVars, frameVars, mb>>

NextInterp == Interpolate

SpecInterp == InitInterp /\ [][NextInterp]_vars

(***************************************************************************)
(* What the properties read from the record of the most recent call.       *)
(***************************************************************************)
Called == lastCall.id # "none"

Ops(tr, op) == {i \in DOMAIN tr : tr[i].op = op}

SubSteps(tr) == SelectSeq(tr, LAMBDA e : e.op = "sub_step")

Draws(tr) == SelectSeq(tr, LAMBDA e : e.op = "draw_line")

Pos(gal) == <<gal.x, gal.y>>

\* the mode a sub-step is entered in
Shrinking(gal) == FGt(gal.diameter, gal.max_diameter) \/ gal.is_max_radius

Center(width, height) == (height \div 2) * width + (width \div 2) + 1

(***************************************************************************)
(* C1.  The Prior Origin slot is (0,0) until the first call.  Each call    *)
(* writes it once, as its last action, so after a call it holds the (x, y) *)
(* of the galaxy that call was given, whatever its curvature; and every    *)
(* sub-step of a call reads what the call before it left there, whichever  *)
(* galaxy that call was for.  Checked under SpecGalaxy.                    *)
(***************************************************************************)
C1_PriorOriginWrittenLast ==
    /\ ~Called => <<ORIG_X, ORIG_Y>> = <<FZero, FZero>>
    /\ Called =>
         LET tr == lastCall.tr IN
         /\ Ops(tr, "store_orig") = {Len(tr)}
         /\ <<ORIG_X, ORIG_Y>> = Pos(galaxies[lastCall.id])
         /\ lastCall.orig = IF prevId = "none" THEN <<FZero, FZero>> ELSE Pos(galaxies[prevId])
         /\ Cardinality(Ops(tr, "sub_step")) = lastCall.entry.curvature
         /\ \A i \in Ops(tr, "sub_step") : tr[i].orig = lastCall.orig

\* a call on galaxy a with two sub-steps or more, right after a call on
\* galaxy b of curvature 0: the sub-steps read b's position
C1_Witness ==
    /\ lastCall.id = "a"
    /\ prevId = "b"
    /\ galaxies["b"].curvature = 0
    /\ lastCall.entry.curvature >= 2
    /\ \E i \in Ops(lastCall.tr, "sub_step") : lastCall.tr[i].orig = Pos(galaxies["b"])
    /\ <<ORIG_X, ORIG_Y>> = Pos(galaxies["a"])

(***************************************************************************)
(* C2.  A call with curvature n >= 1 issues exactly n - 1 draw_line calls, *)
(* whatever the computed points are.  Checked under SpecGalaxy.            *)
(***************************************************************************)
C2_OneLinePerLaterSubIndex ==
    (Called /\ lastCall.entry.curvature >= 1) =>
        Len(Draws(lastCall.tr)) = lastCall.entry.curvature - 1

(***************************************************************************)
(* C3.  For a galaxy made by Galaxy::new, the diameter at the end of every *)
(* sub-step of every call is at least 0 and at most max_diameter + 0.1.    *)
(* Checked under SpecLife.                                                 *)
(***************************************************************************)
C3_DiameterWithinOneStep ==
    Called =>
        \A i \in Ops(lastCall.tr, "sub_step") :
            LET g == lastCall.tr[i].exit IN
            /\ FLe(FZero, g.diameter)
            /\ FLe(g.diameter, FAdd(g.max_diameter, Tenth))

\* a sub-step entered with the latch set ends with the diameter under 0.1
C3_Witness ==
    \E i \in Ops(lastCall.tr, "sub_step") :
        /\ lastCall.tr[i].entry.is_max_radius
        /\ FLt(lastCall.tr[i].exit.diameter, Tenth)

(***************************************************************************)
(* C4, as the code has it.  From Galaxy::new (diameter 9.0, max_diameter   *)
(* 450.0, curvature 10) every sub-step entered in Growing mode adds 0.1 to *)
(* the diameter, ten times a call.  Through the first (450 - 9) * 10 =     *)
(* 4410 sub-steps (441 calls) no sub-step is entered with the diameter     *)
(* above max_diameter and the latch stays clear; after them the diameter   *)
(* is above max_diameter; and the next sub-step, the first of call 442,    *)
(* sets the latch.  Checked under SpecLife.                                *)
(***************************************************************************)
C4_GrowthPerSubStep ==
    Called =>
        LET ss == SubSteps(lastCall.tr)
            n  == (450 - 9) * 10
        IN  /\ \A i \in DOMAIN ss :
                 ~Shrinking(ss[i].entry) =>
                     ss[i].exit.diameter = FAdd(ss[i].entry.diameter, Tenth)
            /\ ticks * 10 <= n =>
                 \A i \in DOMAIN ss : /\ ~Shrinking(ss[i].entry)
                                      /\ ~ss[i].exit.is_max_radius
            /\ ticks * 10 = n => FGt(galaxies["a"].diameter, galaxies["a"].max_diameter)
            /\ ticks * 10 = n + 10 => /\ ~ss[1].entry.is_max_radius
                                      /\ ss[1].exit.is_max_radius

\* call 442 has set the latch
C4_Witness ==
    /\ ticks * 10 = (450 - 9) * 10 + 10
    /\ ~lastCall.entry.is_max_radius
    /\ galaxies["a"].is_max_radius

\* C4 as stated: a call in Growing mode adds 0.1 to the diameter, and the
\* latch is clear through the first (450 - 9) * 10 calls.
C4_GrowthPerTick ==
    Called =>
        /\ (\A i \in Ops(lastCall.tr, "sub_step") : ~Shrinking(lastCall.tr[i].entry)) =>
              galaxies["a"].diameter = FAdd(lastCall.entry.diameter, Tenth)
        /\ (ticks < MaxTicks /\ ticks <= (450 - 9) * 10) => ~galaxies["a"].is_max_radius

(***************************************************************************)
(* C5, as the code has it.  A sub-step entered in Growing mode applies the *)
(* Growing update alone.  A sub-step entered in Shrinking mode with the    *)
(* diameter at 0.1 or more applies the Shrinking update alone and leaves   *)
(* the latch set.  A sub-step entered in Shrinking mode with the diameter  *)
(* under 0.1 clears the latch and applies both updates, the Shrinking one  *)
(* and then the Growing one.  Checked under SpecGalaxy.                    *)
(***************************************************************************)
C5_UpdatesPerSubStep ==
    Called =>
        \A i \in Ops(lastCall.tr, "sub_step") :
            LET g == lastCall.tr[i].entry
                h == lastCall.tr[i].exit
            IN  /\ ~Shrinking(g) =>
                     /\ h.theta = FAdd(g.theta, g.theta_step)
                     /\ h.diameter = FAdd(g.diameter, Tenth)
                     /\ ~h.is_max_radius
                /\ (Shrinking(g) /\ ~FLt(g.diameter, Tenth)) =>
                     /\ h.theta = FSub(g.theta, g.theta_step)
                     /\ h.diameter = FSub(g.diameter, Tenth)
                     /\ h.is_max_radius
                /\ (Shrinking(g) /\ FLt(g.diameter, Tenth)) =>
                     /\ h.theta = FAdd(FSub(g.theta, g.theta_step), g.theta_step)
                     /\ h.diameter = FAdd(FSub(g.diameter, Tenth), Tenth)
                     /\ ~h.is_max_radius

\* a sub-step has cleared the latch
C5_Witness ==
    \E i \in Ops(lastCall.tr, "sub_step") :
        /\ lastCall.tr[i].entry.is_max_radius
        /\ ~lastCall.tr[i].exit.is_max_radius

\* C5 as stated: exactly one update a sub-step, the Shrinking one when the
\* sub-step is entered in Shrinking mode, the Growing one otherwise.
C5_OneUpdatePerSubStep ==
    Called =>
        \A i \in Ops(lastCall.tr, "sub_step") :
            LET g == lastCall.tr[i].entry
                h == lastCall.tr[i].exit
            IN  IF Shrinking(g)
                THEN h.theta = FSub(g.theta, g.theta_step) /\ h.diameter = FSub(g.diameter, Tenth)
                ELSE h.theta = FAdd(g.theta, g.theta_step) /\ h.diameter = FAdd(g.diameter, Tenth)

(***************************************************************************)
(* C6.  Opening a session and drawing on a session's surface leave the     *)
(* visible target's content as it was.  close_draw_frame changes it by one *)
(* BitBlt, its first action, ahead of the SelectObject that unbinds the    *)
(* off-screen bitmap and of the two deletions; the target then holds what  *)
(* the session's surface held.  Checked under SpecFrame.                   *)
(***************************************************************************)
C6_TargetChangesOnlyOnClose ==
    /\ lastFrame.op \in {"open", "draw"} =>
         Content(gdi, TargetDC) = Content(lastFrame.before, TargetDC)
    /\ lastFrame.op = "close" =>
         /\ Content(gdi, TargetDC) = Content(lastFrame.before, lastFrame.data.hdc)
         /\ Ops(lastFrame.tr, "BitBlt") = {1}
         /\ Ops(lastFrame.tr, "SelectObject") = {2}
         /\ Ops(lastFrame.tr, "DeleteObject") = {3}
         /\ Ops(lastFrame.tr, "DeleteDC") = {4}

\* a close has put on the target what was drawn on the session's surface
C6_Witness ==
    /\ lastFrame.op = "close"
    /\ Content(gdi, TargetDC) # Blank
    /\ Content(gdi, TargetDC) # Content(lastFrame.before, TargetDC)

(***************************************************************************)
(* C7.  The live off-screen surfaces and the live off-screen bitmaps are   *)
(* as many as the sessions opened and not closed, each session's surface   *)
(* having its own bitmap bound.  A close rebinds the bitmap its surface    *)
(* had before the session's was bound, and removes that session's surface  *)
(* and bitmap and nothing else.  No session is closed twice.  Checked      *)
(* under SpecFrame.                                                        *)
(***************************************************************************)
C7_SessionsOwnTheirSurfaces ==
    /\ Cardinality(sessions) = opened - Len(closed)
    /\ Cardinality(DOMAIN gdi.dcs \ {TargetDC}) = Cardinality(sessions)
    /\ Cardinality(DOMAIN gdi.bitmaps \ {StockBmp, ScreenBmp}) = Cardinality(sessions)
    /\ \A s \in sessions : /\ s.data.hdc \in DOMAIN gdi.dcs \ {TargetDC}
                           /\ gdi.dcs[s.data.hdc] = s.data.h_bmp_mem
                           /\ s.data.h_bmp_mem \in DOMAIN gdi.bitmaps \ {StockBmp, ScreenBmp}
    /\ lastFrame.op = "close" =>
         LET d == lastFrame.data IN
         /\ d.h_old_bmp_mem = StockBmp
         /\ \E i \in Ops(lastFrame.tr, "SelectObject") : lastFrame.tr[i].obj = d.h_old_bmp_mem
         /\ DOMAIN gdi.dcs = DOMAIN lastFrame.before.dcs \ {d.hdc}
         /\ DOMAIN gdi.bitmaps = DOMAIN lastFrame.before.bitmaps \ {d.h_bmp_mem}
         /\ d.hdc \in DOMAIN lastFrame.before.dcs
         /\ d.h_bmp_mem \in DOMAIN lastFrame.before.bitmaps
    /\ \A i, j \in DOMAIN closed : closed[i] = closed[j] => i = j

\* a second close, made while another session is open
C7_Witness ==
    /\ lastFrame.op = "close"
    /\ Len(closed) >= 2
    /\ sessions # {}

(***************************************************************************)
(* C8.  A call creates its pen and binds it before anything else, for      *)
(* every curvature.  Every draw_line of the call is made with that pen     *)
(* bound and live.  The call then rebinds the pen that was bound before    *)
(* it, destroys the pen it created, and only then writes the Prior Origin  *)
(* slot: on return the bound pen and the live pens are those from before   *)
(* the call.  Checked under SpecGalaxy.                                    *)
(***************************************************************************)
C8_PenScopedToCall ==
    Called =>
        LET tr == lastCall.tr
            n  == Len(tr)
        IN  /\ Ops(tr, "CreatePen") = {1}
            /\ tr[1].color = lastCall.entry.color
            /\ tr[1].pen \notin lastCall.pens
            /\ tr[2].op = "SelectObject" /\ tr[2].obj = tr[1].pen /\ tr[2].old = lastCall.pen
            /\ \A i \in Ops(tr, "draw_line") : /\ i > 2 /\ i < n - 2
                                               /\ tr[i].pen = tr[1].pen
                                               /\ tr[i].pen_live
            /\ tr[n - 2].op = "SelectObject" /\ tr[n - 2].obj = lastCall.pen
            /\ Ops(tr, "DeleteObject") = {n - 1}
            /\ tr[n - 1].obj = tr[1].pen
            /\ tr[n].op = "store_orig"
            /\ dcPen = lastCall.pen
            /\ pens = lastCall.pens

\* a call that drew two segments has returned
C8_Witness ==
    /\ Called
    /\ Len(Draws(lastCall.tr)) >= 2
    /\ dcPen = StockPen

(***************************************************************************)
(* C9, as the code has it.  calc_mandelbrot(2, 2, 10) fills the four       *)
(* pixels, for c = (-2,-2), (0,-2), (-2,0) and (0,0), with the colours of  *)
(* the counts 1, 2, 10 and 10: the first two points escape, the last two   *)
(* reach max_iter.  Checked under SpecMandel.                              *)
(***************************************************************************)
C9_TwoByTwoCounts ==
    (mb.done /\ mb.width = 2 /\ mb.height = 2 /\ mb.max_iter = 10) =>
        /\ <<PixelCoord(0, 2), PixelCoord(1, 2)>> = <<FromInt(-2), FZero>>
        /\ mb.pixels = <<PixelColor(1), PixelColor(2), PixelColor(10), PixelColor(10)>>

\* the call calc_mandelbrot(2, 2, 10) has returned with two pixels at max_iter
C9_Witness ==
    /\ mb.done /\ mb.width = 2 /\ mb.height = 2 /\ mb.max_iter = 10
    /\ mb.pixels[3] = PixelColor(10)
    /\ mb.pixels[4] = PixelColor(10)

\* C9 as stated: all four counts are under 10.
C9_AllFourEscape ==
    (mb.done /\ mb.width = 2 /\ mb.height = 2 /\ mb.max_iter = 10) =>
        \A i \in 1..4 : mb.pixels[i] % 256 < 10

(***************************************************************************)
(* C10, as the code has it.  For even width and even height and every      *)
(* max_iter >= 1, the pixel in column width/2 of row height/2 is mapped to *)
(* c = (0,0) and its count is max_iter: its colour is max_iter mod 256 in  *)
(* each of the three channels.  Checked under SpecMandel.                  *)
(***************************************************************************)
C10_CentreOfEvenBuffer ==
    (mb.done /\ mb.width % 2 = 0 /\ mb.height % 2 = 0) =>
        /\ IsZero(PixelCoord(mb.width \div 2, mb.width))
        /\ IsZero(PixelCoord(mb.height \div 2, mb.height))
        /\ mb.pixels[Center(mb.width, mb.height)] =
              (mb.max_iter % 256) * 65536 + (mb.max_iter % 256) * 256 + (mb.max_iter % 256)

\* the call on a 4 x 2 buffer with max_iter = MaxIter has returned
C10_Witness ==
    /\ mb.done /\ mb.width = 4 /\ mb.height = 2 /\ mb.max_iter = MaxIter
    /\ mb.pixels[Center(4, 2)] = PixelColor(MaxIter)

\* C10 as stated: for every width and height.
C10_CentreOfEveryBuffer ==
    mb.done =>
        /\ IsZero(PixelCoord(mb.width \div 2, mb.width))
        /\ IsZero(PixelCoord(mb.height \div 2, mb.height))
        /\ mb.pixels[Center(mb.width, mb.height)] = PixelColor(mb.max_iter)

(***************************************************************************)
(* C11.  A call on a galaxy whose curvature is 0 or less gives the caller  *)
(* an InvalidParameter error.  Checked under SpecGalaxy.                   *)
(***************************************************************************)
C11_NonPositiveCurvatureRejected ==
    (Called /\ lastCall.entry.curvature <= 0) => lastCall.ret = "InvalidParameter"

(***************************************************************************)
(* C12.  interpolate_floats and interpolate_colors give an explicit error  *)
(* and never panic: InvalidParameter on a single stop, OutOfRange on two   *)
(* stops or more with weight 1.0.  Checked under SpecInterp.               *)
(***************************************************************************)
C12_ExplicitErrors ==
    ip.done =>
        /\ ip.out_floats.kind # "panic"
        /\ ip.out_colors.kind # "panic"
        /\ Len(ip.floats) = 1 =>
              /\ ip.out_floats.kind = "InvalidParameter"
              /\ ip.out_colors.kind = "InvalidParameter"
        /\ (Len(ip.floats) >= 2 /\ ip.weight = FOne) =>
              /\ ip.out_floats.kind = "OutOfRange"
              /\ ip.out_colors.kind = "OutOfRange"

\* The whole number of steps in a: a / step to the nearest integer, taken
\* of the exact quotient (a tie goes away from zero).  Under a.e - step.e
\* = -1 the quotient is below 1/2.
StepCount(a, step) ==
    IF IsZero(a) \/ a.e - step.e < -1 THEN 0
    ELSE a.s * step.s * BToInt(BDivMod(BAdd(BShl(a.m, a.e - step.e + 3), BShl(step.m, 2)),
                                       BShl(step.m, 3))[1])

(***************************************************************************)
(* C13.  For a galaxy made by Galaxy::new, at the end of every sub-step of *)
(* every call: theta and diameter have moved the same way in the sub-step  *)
(* (both up, both down, or both back where they were); the number of       *)
(* theta_step increments in theta, theta / theta_step to the nearest       *)
(* integer, is the number of 0.1 increments in diameter, (diameter - 9.0)  *)
(* / 0.1 to the nearest integer; and theta is negative exactly when        *)
(* diameter is below 9.0.  Checked under SpecLife.                         *)
(***************************************************************************)
C13_ThetaDiameterLockstep ==
    Called =>
        \A i \in Ops(lastCall.tr, "sub_step") :
            LET g == lastCall.tr[i].entry
                h == lastCall.tr[i].exit
            IN  /\ FCmp(h.theta, g.theta) = FCmp(h.diameter, g.diameter)
                /\ StepCount(h.theta, h.theta_step) =
                      StepCount(FSub(h.diameter, FromInt(9)), Tenth)
                /\ FLt(h.theta, FZero) <=> FLt(h.diameter, FromInt(9))

\* a sub-step has ended with theta negative and the diameter under 9.0
C13_Witness ==
    \E i \in Ops(lastCall.tr, "sub_step") :
        /\ FLt(lastCall.tr[i].exit.theta, FZero)
        /\ FLt(lastCall.tr[i].exit.diameter, FromInt(9))

Spec == SpecGalaxy
===========================================================================
